---- MODULE Spec2Model ----
(***************************************************************************)
(* DMDataPushMailer (src/main.go): a cron-triggered job that exports       *)
(* database tables to spreadsheet buffers and mails them as attachments.   *)
(*                                                                         *)
(* Bytes are integers 0..255.  Strings that the program only copies        *)
(* (addresses, file names, table names) are TLA+ strings; strings whose    *)
(* bytes are encoded (mail body, cell text, attachment payload) are        *)
(* sequences of bytes.                                                     *)
(***************************************************************************)
EXTENDS Integers, Sequences, FiniteSets, TLC

VARIABLES
    config,     \* the Config read by main, fixed for the life of the process
    runs,       \* one record per goroutine the scheduler started for task
    mimeIn,     \* arguments of one SendEmail call studied in isolation
    mimeOut,    \* what that call produced
    attIn,      \* payload of one writeAttachment call studied in isolation
    attOut,     \* what that call produced
    expIn,      \* the result set behind one exportTableToExcel call
    expOut      \* what that call returned

vars == <<config, runs, mimeIn, mimeOut, attIn, attOut, expIn, expOut>>

-----------------------------------------------------------------------------
(* Bounds of the model *)

MaxRuns == 2         \* scheduler firings modelled
MaxBodyLen == 2      \* bytes in a mail body of the isolated SendEmail call
MaxAtts == 2         \* attachments of the isolated SendEmail call
MaxPartLen == 4      \* payload bytes of those attachments
MaxPayloadLen == 60  \* payload bytes of the isolated writeAttachment call
MaxCols == 2         \* columns of a result set
MaxRows == 2         \* data rows of a result set

-----------------------------------------------------------------------------
(* Sequence helpers *)

Last(s) == s[Len(s)]

Range(s) == {s[i] : i \in 1..Len(s)}

RECURSIVE SeqsUpTo(_, _)
SeqsUpTo(S, n) ==
    IF n = 0 THEN {<<>>}
    ELSE LET shorter == SeqsUpTo(S, n - 1)
         IN  shorter \cup {Append(s, x) : s \in {t \in shorter : Len(t) = n - 1}, x \in S}

SeqsOfLen(S, n) == {s \in SeqsUpTo(S, n) : Len(s) = n}

-----------------------------------------------------------------------------
(* encoding/base64: base64.NewEncoder(base64.StdEncoding, part).           *)
(* Output symbols are alphabet indexes 0..63 and 64 for the padding '='.   *)
(* The stream encoder emits the groups back to back: it inserts no line    *)
(* break.  A line break in an encoded body is the symbol 65 (CRLF).        *)

EncodeGroup(g) ==
    LET b1 == g[1]
        b2 == IF Len(g) >= 2 THEN g[2] ELSE 0
        b3 == IF Len(g) >= 3 THEN g[3] ELSE 0
    IN  << b1 \div 4,
           (b1 % 4) * 16 + (b2 \div 16),
           IF Len(g) >= 2 THEN (b2 % 16) * 4 + (b3 \div 64) ELSE 64,
           IF Len(g) >= 3 THEN b3 % 64 ELSE 64 >>

RECURSIVE StdEncoding(_)
StdEncoding(s) ==
    IF s = <<>> THEN <<>>
    ELSE LET n == IF Len(s) >= 3 THEN 3 ELSE Len(s)
         IN  EncodeGroup(SubSeq(s, 1, n)) \o StdEncoding(SubSeq(s, n + 1, Len(s)))

(* The receiving side: a base64 decoder, which skips line breaks. *)
DecodeGroup(q) ==
    LET c3 == IF q[3] = 64 THEN 0 ELSE q[3]
        c4 == IF q[4] = 64 THEN 0 ELSE q[4]
        b1 == q[1] * 4 + (q[2] \div 16)
        b2 == (q[2] % 16) * 16 + (c3 \div 4)
        b3 == (c3 % 4) * 64 + c4
    IN  IF q[3] = 64 THEN <<b1>>
        ELSE IF q[4] = 64 THEN <<b1, b2>>
        ELSE <<b1, b2, b3>>

RECURSIVE StdDecodeGroups(_)
StdDecodeGroups(e) ==
    IF Len(e) < 4 THEN <<>>
    ELSE DecodeGroup(SubSeq(e, 1, 4)) \o StdDecodeGroups(SubSeq(e, 5, Len(e)))

StdDecode(e) == StdDecodeGroups(SelectSeq(e, LAMBDA c : c # 65))

(* The lines of an encoded body: the runs of symbols between line breaks. *)
Breaks(e) == {0, Len(e) + 1} \cup {k \in 1..Len(e) : e[k] = 65}

Lines(e) ==
    {SubSeq(e, p[1] + 1, p[2] - 1) :
        p \in {q \in Breaks(e) \X Breaks(e) :
                 /\ q[1] < q[2]
                 /\ \A k \in Breaks(e) : ~(q[1] < k /\ k < q[2])}}

-----------------------------------------------------------------------------
(* mime/quotedprintable: quotedprintable.NewWriter(part) in text mode.      *)
(* The writer is [out, i, cr]: the bytes produced so far, the length of    *)
(* the current output line, and whether the last input byte was a CR.      *)
(* Lines hold at most 76 bytes.                                            *)

Hex(n) == IF n < 10 THEN 48 + n ELSE 55 + n

HexVal(c) == IF c < 58 THEN c - 48 ELSE c - 55

QPInsertCRLF(w) == [out |-> w.out \o <<13, 10>>, i |-> 0, cr |-> w.cr]

QPSoftLineBreak(w) == QPInsertCRLF([w EXCEPT !.out = Append(@, 61)])

QPEncodeByte(w, b) ==
    LET w1 == IF 76 - 1 - w.i < 3 THEN QPSoftLineBreak(w) ELSE w
    IN  [out |-> w1.out \o <<61, Hex(b \div 16), Hex(b % 16)>>,
         i |-> w1.i + 3, cr |-> w1.cr]

QPCheckLastByte(w) ==
    IF w.i = 0 THEN w
    ELSE LET b == Last(w.out)
         IN  IF b \in {32, 9}
             THEN QPEncodeByte([w EXCEPT !.out = SubSeq(@, 1, Len(@) - 1), !.i = @ - 1], b)
             ELSE w

QPWriteRaw(w, b) ==
    IF b \in {10, 13}
    THEN IF w.cr /\ b = 10
         THEN [w EXCEPT !.cr = FALSE]
         ELSE QPInsertCRLF(QPCheckLastByte([w EXCEPT !.cr = IF b = 13 THEN TRUE ELSE @]))
    ELSE LET w1 == IF w.i = 76 - 1 THEN QPSoftLineBreak(w) ELSE w
         IN  [out |-> Append(w1.out, b), i |-> w1.i + 1, cr |-> FALSE]

QPIsRaw(b) == (b >= 33 /\ b <= 126 /\ b # 61) \/ b \in {32, 9, 10, 13}

RECURSIVE QPWrite(_, _)
QPWrite(w, p) ==
    IF p = <<>> THEN w
    ELSE QPWrite(IF QPIsRaw(p[1]) THEN QPWriteRaw(w, p[1]) ELSE QPEncodeByte(w, p[1]),
                 Tail(p))

(* qp.Write(body) followed by the deferred qp.Close() *)
QPEncode(body) == QPCheckLastByte(QPWrite([out |-> <<>>, i |-> 0, cr |-> FALSE], body)).out

(* The receiving side: a quoted-printable decoder. *)
RECURSIVE QPDecode(_)
QPDecode(e) ==
    IF e = <<>> THEN <<>>
    ELSE IF e[1] = 61 /\ Len(e) >= 3 /\ e[2] = 13 /\ e[3] = 10
         THEN QPDecode(SubSeq(e, 4, Len(e)))
    ELSE IF e[1] = 61 /\ Len(e) >= 3
         THEN <<HexVal(e[2]) * 16 + HexVal(e[3])>> \o QPDecode(SubSeq(e, 4, Len(e)))
    ELSE <<e[1]>> \o QPDecode(Tail(e))

-----------------------------------------------------------------------------
(* mime/multipart.Writer over the message buffer buf.  The buffer is a     *)
(* sequence of segments [t, b, h, d]:                                      *)
(*   "top"   the message header block and the blank line after it (h)      *)
(*   "delim" a boundary delimiter line --b                                 *)
(*   "hdr"   the header block of a part and the blank line after it (h)    *)
(*   "data"  the encoded content of a part (d)                             *)
(*   "close" the closing delimiter line --b--                              *)

Seg(t, b, h, d) == [t |-> t, b |-> b, h |-> h, d |-> d]

NoHdr == [none |-> TRUE]

NewWriter(buf, boundary) == [buf |-> buf, boundary |-> boundary]

CreatePart(w, header) ==
    [w EXCEPT !.buf = @ \o <<Seg("delim", w.boundary, NoHdr, <<>>),
                             Seg("hdr", 0, header, <<>>)>>]

WriterClose(w) == [w EXCEPT !.buf = Append(@, Seg("close", w.boundary, NoHdr, <<>>))]

PartWrite(w, d) == [w EXCEPT !.buf = Append(@, Seg("data", 0, NoHdr, d))]

writeBody(w, body) ==
    PartWrite(CreatePart(w, [ContentType |-> "text/plain; charset=utf-8",
                             ContentTransferEncoding |-> "quoted-printable"]),
              QPEncode(body))

(* io.Copy(encoder, attachment) reads the buffer to its end: what is left  *)
(* in attachment.file afterwards is empty.                                 *)
writeAttachment(w, attachment) ==
    [w |-> PartWrite(CreatePart(w, [ContentType |-> attachment.mimeType,
                                    ContentTransferEncoding |-> "base64",
                                    ContentDisposition |-> attachment.fileName]),
                     StdEncoding(attachment.file)),
     attachment |-> [attachment EXCEPT !.file = <<>>]]

(* for _, attachment := range attachments { writeAttachment(...) } *)
RECURSIVE WriteAttachments(_, _, _)
WriteAttachments(w, attachments, k) ==
    IF k > Len(attachments) THEN [w |-> w, attachments |-> attachments]
    ELSE LET r == writeAttachment(w, attachments[k])
         IN  WriteAttachments(r.w, [attachments EXCEPT ![k] = r.attachment], k + 1)

-----------------------------------------------------------------------------
(* SendEmail.  The environment of one call is net = [boundary, conn,       *)
(* failAt]: the boundary multipart.NewWriter draws, the connection         *)
(* tls.Dial returns, and the stage of the SMTP exchange that fails (0 when *)
(* none does).  Writes to the in-memory buffer do not fail.  The call      *)
(* first builds the message, which empties the attachment buffers, and     *)
(* then goes through the stages, each a wait on the network.               *)

Stages == <<"dial", "client", "auth", "mail", "rcpt", "data", "write", "close">>

(* The headers map of SendEmail; a map has no order of its own. *)
TopHeaders(from, to, subject, boundary) ==
    [From |-> from, To |-> to, Subject |-> subject, MIMEVersion |-> "1.0",
     ContentType |-> [type |-> "multipart/mixed", boundary |-> boundary]]

(* The message buffer when the attachment loop ends (main.go line 219). *)
BuildMessage(from, to, subject, body, attachments, boundary) ==
    LET writer == NewWriter(<<Seg("top", 0, TopHeaders(from, to, subject, boundary), <<>>)>>,
                            boundary)
    IN  WriteAttachments(writeBody(writer, body), attachments, 1)

(* The call when the message is built and tls.Dial has not been called.    *)
BeginSend(smtpServer, port, username, password, from, to, subject, body, attachments, net) ==
    LET built == BuildMessage(from, to, subject, body, attachments, net.boundary)
    IN  [err |-> FALSE,
         attachments |-> built.attachments,
         built |-> built.w.buf,
         stages |-> <<>>,
         addr |-> <<smtpServer, port>>,
         conn |-> 0,
         auth |-> <<>>,
         mailFrom |-> <<>>,
         rcpts |-> <<>>,
         data |-> <<>>,
         buf |-> built.w.buf,
         args |-> [username |-> username, password |-> password, from |-> from, to |-> to],
         net |-> net]

(* SendEmail has returned: a stage failed or the last one succeeded. *)
Returned(call) == call.err \/ Len(call.stages) = Len(Stages)

(* The next stage of the exchange, which succeeds (ok) or fails; the       *)
(* deferred writer.Close() runs when SendEmail returns.                    *)
StageStep(call, ok) ==
    LET k == Len(call.stages) + 1
        stage == Stages[k]
        c == [call EXCEPT
                !.err = ~ok,
                !.stages = Append(@, stage),
                !.conn = IF stage = "dial" /\ ok THEN call.net.conn ELSE @,
                !.auth = IF stage = "auth" THEN <<call.args.username, call.args.password>> ELSE @,
                !.mailFrom = IF stage = "mail" THEN <<call.args.from>> ELSE @,
                !.rcpts = IF stage = "rcpt" THEN <<call.args.to>> ELSE @,
                \* writerClient.Write(buf.Bytes())
                !.data = IF stage = "write" THEN call.buf ELSE @]
    IN  IF Returned(c)
        THEN [c EXCEPT !.buf = WriterClose(NewWriter(@, call.net.boundary)).buf]
        ELSE c

RECURSIVE RunStages(_)
RunStages(call) ==
    IF Returned(call) THEN call
    ELSE RunStages(StageStep(call, Len(call.stages) + 1 # call.net.failAt))

SendEmail(smtpServer, port, username, password, from, to, subject, body, attachments, net) ==
    RunStages(BeginSend(smtpServer, port, username, password, from, to, subject, body,
                        attachments, net))

-----------------------------------------------------------------------------
(* The receiving side: reading a multipart message.                        *)

(* The boundary the message header block declares (0: none). *)
DeclaredBoundary(msg) ==
    IF Len(msg) >= 1 /\ msg[1].t = "top" THEN msg[1].h.ContentType.boundary ELSE 0

(* The parts a reader can take out of msg: each delimiter line followed by *)
(* a header block and content.                                             *)
PartStarts(msg) ==
    {i \in 2..Len(msg) : /\ msg[i].t = "delim"
                         /\ msg[i].b = DeclaredBoundary(msg)
                         /\ i + 2 <= Len(msg)
                         /\ msg[i + 1].t = "hdr"
                         /\ msg[i + 2].t = "data"}

RECURSIVE PartsFrom(_, _)
PartsFrom(msg, i) ==
    IF i > Len(msg) THEN <<>>
    ELSE IF i \in PartStarts(msg)
         THEN <<[h |-> msg[i + 1].h, d |-> msg[i + 2].d]>> \o PartsFrom(msg, i + 3)
         ELSE PartsFrom(msg, i + 1)

Parts(msg) == PartsFrom(msg, 2)

(* A complete multipart document: header block, parts, closing delimiter,  *)
(* and nothing else.                                                       *)
IsCompleteMultipart(msg) ==
    /\ Len(msg) >= 2
    /\ msg[1].t = "top"
    /\ Last(msg).t = "close"
    /\ Last(msg).b = DeclaredBoundary(msg)
    /\ Len(msg) = 2 + 3 * Len(Parts(msg))

AttachmentParts(msg) == SubSeq(Parts(msg), 2, Len(Parts(msg)))

-----------------------------------------------------------------------------
(* exportTableToExcel.  A query runs against a script of what the driver   *)
(* will do: [columns, rows, fail], with fail = [kind, at]:                 *)
(*   "none"     every call succeeds                                        *)
(*   "query"    db.Query fails                                             *)
(*   "columns"  rows.Columns fails                                         *)
(*   "scan"     rows.Scan fails on data row at                             *)
(*   "iter"     rows.Next ends after at rows and rows.Err reports an error *)
(* A cell is [null, bytes]: a nil RawBytes, or the raw bytes of the value. *)
(* A file is the cells of Sheet1, a function from <<column, row>> to text. *)

NilBuffer == <<-1>>

NullText == <<78, 85, 76, 76>>

NewFile == [cells |-> <<>>, active |-> 0]

SetCellValue(file, col, row, text) ==
    [file EXCEPT !.cells = (<<col, row>> :> text) @@ @]

(* for i, colName := range columns { SetCellValue(cell(i+1, 1), colName) } *)
RECURSIVE WriteHeader(_, _, _)
WriteHeader(file, columns, i) ==
    IF i > Len(columns) THEN file
    ELSE WriteHeader(SetCellValue(file, i, 1, columns[i]), columns, i + 1)

(* A faulty variant of the cell text: a null value written as empty text. *)
CellTextNullEmpty(value) == value.bytes

(* if value == nil { "NULL" } else { string(value) } *)

CellText(value) == IF value.null THEN NullText ELSE value.bytes

(* for colNum, value := range values { SetCellValue(cell(colNum+1, rowNum), ...) } *)
RECURSIVE WriteRow(_, _, _, _)
WriteRow(file, values, rowNum, colNum) ==
    IF colNum > Len(values) THEN file
    ELSE WriteRow(SetCellValue(file, colNum, rowNum, CellText(values[colNum])),
                  values, rowNum, colNum + 1)

(* for rows.Next() { rows.Scan; ...; rowNum++ } and the rows.Err() check; *)
(* n is the data row rows.Next would deliver.                              *)
RECURSIVE ScanRows(_, _, _, _)
ScanRows(file, script, n, rowNum) ==
    IF script.fail.kind = "iter" /\ script.fail.at = n - 1
    THEN [err |-> TRUE, file |-> file]
    ELSE IF n > Len(script.rows)
    THEN [err |-> FALSE, file |-> file]
    ELSE IF script.fail.kind = "scan" /\ script.fail.at = n
    THEN [err |-> TRUE, file |-> file]
    ELSE ScanRows(WriteRow(file, script.rows[n], rowNum, 1), script, n + 1, rowNum + 1)

(* file.Write(buffer): the document as bytes.  The spreadsheet container   *)
(* is written here as the text of the cells, row by row: each cell closed  *)
(* by a TAB, each row by a LF.                                             *)
CellRows(file) == {c[2] : c \in DOMAIN file.cells}

CellCols(file, row) == {c[1] : c \in {d \in DOMAIN file.cells : d[2] = row}}

SetMax(S) == IF S = {} THEN 0 ELSE CHOOSE x \in S : \A y \in S : y <= x

RECURSIVE RowBytes(_, _, _)
RowBytes(file, row, col) ==
    IF col > SetMax(CellCols(file, row)) THEN <<10>>
    ELSE (IF <<col, row>> \in DOMAIN file.cells THEN file.cells[<<col, row>>] ELSE <<>>)
         \o <<9>> \o RowBytes(file, row, col + 1)

RECURSIVE SheetBytes(_, _)
SheetBytes(file, row) ==
    IF row > SetMax(CellRows(file)) THEN <<>>
    ELSE RowBytes(file, row, 1) \o SheetBytes(file, row + 1)

FileWrite(file) == SheetBytes(file, 1)

(* Returns [buffer, err] and, beside them, the file as it stood and the    *)
(* connection as the call leaves it.                                       *)
exportTableToExcel(db, script) ==
    IF script.fail.kind \in {"query", "columns"}
    THEN [buffer |-> NilBuffer, err |-> TRUE, file |-> NewFile, db |-> db]
    ELSE LET scanned == ScanRows(WriteHeader(NewFile, script.columns, 1), script, 1, 2)
         IN  IF scanned.err
             THEN [buffer |-> NilBuffer, err |-> TRUE, file |-> scanned.file, db |-> db]
             ELSE [buffer |-> FileWrite(scanned.file), err |-> FALSE,
                   file |-> scanned.file, db |-> db]

-----------------------------------------------------------------------------
(* createDMDB.  outcome is what the driver does: "ok", "openErr" (sql.Open *)
(* fails) or "pingErr" (db.Ping fails).  A handle is [opened, open,        *)
(* closes]: whether sql.Open returned it, whether it is still open, and    *)
(* how many times Close was called on it.  The port is an int formatted    *)
(* with %d, which is never the empty string.                               *)

NoDB == [opened |-> FALSE, open |-> FALSE, closes |-> 0]

DBClose(db) == [db EXCEPT !.open = FALSE, !.closes = @ + 1]

(* The credentials check and sql.Open (lines 359-371). *)
OpenDB(username, password, host, port, ok) ==
    IF username = "" \/ password = "" \/ host = "" \/ ~ok
    THEN [db |-> NoDB, err |-> TRUE]
    ELSE [db |-> [opened |-> TRUE, open |-> TRUE, closes |-> 0], err |-> FALSE]

(* db.Ping() and what follows it (lines 373-384). *)
PingDB(db, ok) ==
    IF ok THEN [db |-> db, err |-> FALSE] ELSE [db |-> DBClose(db), err |-> TRUE]

createDMDB(username, password, host, port, outcome) ==
    LET opened == OpenDB(username, password, host, port, outcome # "openErr")
    IN  IF opened.err THEN opened ELSE PingDB(opened.db, outcome # "pingErr")

-----------------------------------------------------------------------------
(* The configurations and the database the job is run against.             *)

XlsxMime == "application/vnd.openxmlformats-officedocument.spreadsheetml.sheet"

Email == [host |-> "smtp.example.com", port |-> 465, username |-> "u", password |-> "p"]

DBOk == [host |-> "db", port |-> 5236, username |-> "u", password |-> "p"]

Att(table, excel) == [table |-> table, excel |-> excel]

(* The scenario of the README: one post, two tables, two recipients. *)
ConfigReadme ==
    [email |-> Email, db |-> DBOk,
     post |-> << [from |-> "from@x", to |-> <<"r1@x", "r2@x">>, subject |-> "SUBJECT",
                  body |-> <<72, 105>>,
                  attachment |-> <<Att("TEST_01", "01.xlsx"), Att("TEST_02", "02.xlsx")>>] >>]

(* Two posts; the first has two attachments, the second none. *)
ConfigTwoPosts ==
    [email |-> Email, db |-> DBOk,
     post |-> << [from |-> "from@x", to |-> <<"r1@x">>, subject |-> "S1",
                  body |-> <<65>>,
                  attachment |-> <<Att("TEST_03", "03.xlsx"), Att("TEST_01", "01.xlsx")>>],
                 [from |-> "from@x", to |-> <<"r3@x">>, subject |-> "S2",
                  body |-> <<66, 10>>, attachment |-> <<>>] >>]

(* A configuration without a database password. *)
ConfigNoPassword ==
    [email |-> Email, db |-> [DBOk EXCEPT !.password = ""],
     post |-> << [from |-> "from@x", to |-> <<"r1@x">>, subject |-> "S",
                  body |-> <<65>>, attachment |-> <<Att("TEST_03", "03.xlsx")>>] >>]

Configs == {ConfigReadme, ConfigTwoPosts, ConfigNoPassword}

Val(bytes) == [null |-> FALSE, bytes |-> bytes]

Null == [null |-> TRUE, bytes |-> <<>>]

Table(name) ==
    CASE name = "TEST_01" -> [columns |-> <<<<65>>>>, rows |-> << <<Val(<<120>>)>> >>]
      [] name = "TEST_02" -> [columns |-> <<<<65>>, <<66>>>>, rows |-> << <<Val(<<121>>), Null>> >>]
      [] OTHER -> [columns |-> <<<<67>>>>, rows |-> <<>>]

NoFail == [kind |-> "none", at |-> 0]

Script(table, fail) == [columns |-> table.columns, rows |-> table.rows, fail |-> fail]

(* What the driver may do when the job queries the table. *)
TableFails(name) ==
    {NoFail, [kind |-> "query", at |-> 0]}
    \cup (IF Len(Table(name).rows) > 0 THEN {[kind |-> "scan", at |-> 1]}
          ELSE {[kind |-> "iter", at |-> 0]})

-----------------------------------------------------------------------------
(* task, one goroutine per firing of the schedule.  A run is               *)
(*   pc           "idle" (not fired yet), "createDMDB" (before sql.Open),  *)
(*                "ping" (in db.Ping), "export", "send" (before a          *)
(*                SendEmail call), "smtp" (inside SendEmail, message       *)
(*                built), "return" (task is returning, the deferred        *)
(*                db.Close() not yet run), "done" (task has returned)      *)
(*   post, idx    the post being processed, and the attachment to export   *)
(*                or the recipient to send to next                         *)
(*   db           the handle of createDMDB                                 *)
(*   attachments  the attachments slice of the current post                *)
(*   call         the SendEmail call in progress                           *)
(*   log          what the run did to the database and the mail server:    *)
(*                one entry per exportTableToExcel call and per SendEmail  *)
(*                call that has returned                                   *)
(*   result       how task returns                                         *)

IdleRun == [pc |-> "idle", post |-> 0, idx |-> 0, db |-> NoDB, attachments |-> <<>>,
            call |-> <<>>, log |-> <<>>, result |-> ""]

Entry(kind, post, idx, name, ok) ==
    [kind |-> kind, post |-> post, idx |-> idx, name |-> name, ok |-> ok,
     doc |-> <<>>, built |-> <<>>, stages |-> <<>>, conn |-> 0, rcpts |-> <<>>, data |-> <<>>]

(* Where the loops of task stand when the post loop reaches post p. *)
RECURSIVE StartPost(_, _)
StartPost(cfg, p) ==
    IF p > Len(cfg.post) THEN [pc |-> "done", post |-> p, idx |-> 0]
    ELSE IF Len(cfg.post[p].attachment) > 0 THEN [pc |-> "export", post |-> p, idx |-> 1]
    ELSE IF Len(cfg.post[p].to) > 0 THEN [pc |-> "send", post |-> p, idx |-> 1]
    ELSE StartPost(cfg, p + 1)

(* A faulty variant of the attachment loop: it ends after one attachment. *)
AfterExportSkipRest(cfg, p, a) ==
    IF Len(cfg.post[p].to) > 0 THEN [pc |-> "send", post |-> p, idx |-> 1]
    ELSE StartPost(cfg, p + 1)

(* Where the loops stand after attachment a of post p was exported. *)
AfterExport(cfg, p, a) ==
    IF a < Len(cfg.post[p].attachment) THEN [pc |-> "export", post |-> p, idx |-> a + 1]
    ELSE IF Len(cfg.post[p].to) > 0 THEN [pc |-> "send", post |-> p, idx |-> 1]
    ELSE StartPost(cfg, p + 1)

(* Where the loops stand after the send to recipient r of post p. *)
AfterSend(cfg, p, r) ==
    IF r < Len(cfg.post[p].to) THEN [pc |-> "send", post |-> p, idx |-> r + 1]
    ELSE StartPost(cfg, p + 1)

(* A faulty variant of the return: the deferred db.Close() is missing. *)
ReturnNoClose(run) == [run EXCEPT !.pc = "done"]

(* task returns: the deferred db.Close() runs *)
Return(run) == [run EXCEPT !.pc = "done", !.db = DBClose(@)]

(* A return statement of task after defer db.Close() was registered. *)
Leave(run, result) == [run EXCEPT !.pc = "return", !.result = result]

(* A faulty variant of the export error path: continue instead of return. *)
OnExportErrorContinue(run) ==
    LET pos == AfterExport(config, run.post, run.idx)
        r == [run EXCEPT !.pc = pos.pc, !.post = pos.post, !.idx = pos.idx]
    IN  IF pos.pc = "done" THEN Leave(r, "ok") ELSE r

(* if err != nil { log...; return } after exportTableToExcel *)
OnExportError(run) == Leave(run, "exportErr")

(* A faulty variant of the send error path: continue instead of return. *)
OnSendErrorContinue(run) ==
    LET pos == AfterSend(config, run.post, run.idx)
        r == [run EXCEPT !.pc = pos.pc, !.post = pos.post, !.idx = pos.idx]
    IN  IF pos.pc = "done" THEN Leave(r, "ok") ELSE r

(* if err != nil { log...; return } after SendEmail *)
OnSendError(run) == Leave(run, "sendErr")

(* Continue at pos; the attachments slice is made anew for each post. *)
Continue(run, pos, attachments) ==
    LET r == [run EXCEPT !.pc = pos.pc, !.post = pos.post, !.idx = pos.idx,
                         !.attachments = IF pos.post = run.post THEN attachments ELSE <<>>]
    IN  IF pos.pc = "done" THEN Leave(r, "ok") ELSE r

(* The boundary and the connection of the k-th SendEmail call of run i:    *)
(* a boundary drawn at random and a connection just dialled are new.       *)
Fresh(i, k) == 100 * i + k

(* c.Start(): the scheduler fires and starts task in a goroutine of its    *)
(* own, whatever the earlier goroutines are doing.                         *)
Trigger(i) ==
    /\ runs[i].pc = "idle"
    /\ \A j \in 1..(i - 1) : runs[j].pc # "idle"
    /\ runs' = [runs EXCEPT ![i].pc = "createDMDB"]
    /\ UNCHANGED <<config, mimeIn, mimeOut, attIn, attOut, expIn, expOut>>

(* createDMDB up to sql.Open *)
TaskOpen(i) ==
    /\ runs[i].pc = "createDMDB"
    /\ \E ok \in BOOLEAN :
          LET r == OpenDB(config.db.username, config.db.password, config.db.host,
                          config.db.port, ok)
          IN  runs' = [runs EXCEPT ![i] =
                         IF r.err THEN [@ EXCEPT !.pc = "done", !.result = "dbErr"]
                         ELSE [@ EXCEPT !.pc = "ping", !.db = r.db]]
    /\ UNCHANGED <<config, mimeIn, mimeOut, attIn, attOut, expIn, expOut>>

(* db.Ping() answers: createDMDB returns, and task registers the deferred  *)
(* db.Close() and enters its loops, or returns on the error.               *)
TaskPing(i) ==
    /\ runs[i].pc = "ping"
    /\ \E ok \in BOOLEAN :
          LET r == PingDB(runs[i].db, ok)
              run == [runs[i] EXCEPT !.db = r.db]
          IN  runs' = [runs EXCEPT ![i] =
                         IF r.err THEN [run EXCEPT !.pc = "done", !.result = "dbErr"]
                         ELSE Continue(run, StartPost(config, 1), <<>>)]
    /\ UNCHANGED <<config, mimeIn, mimeOut, attIn, attOut, expIn, expOut>>

TaskExport(i) ==
    /\ runs[i].pc = "export"
    /\ LET run == runs[i]
           ac == config.post[run.post].attachment[run.idx]
       IN  \E fail \in TableFails(ac.table) :
             LET r == exportTableToExcel(run.db, Script(Table(ac.table), fail))
                 e == [Entry("export", run.post, run.idx, ac.table, ~r.err)
                         EXCEPT !.doc = r.buffer]
                 logged == [run EXCEPT !.log = Append(@, e), !.db = r.db]
             IN  runs' = [runs EXCEPT ![i] =
                            IF r.err THEN OnExportError(logged)
                            ELSE Continue(logged, AfterExport(config, run.post, run.idx),
                                          Append(run.attachments,
                                                 [fileName |-> ac.excel, mimeType |-> XlsxMime,
                                                  file |-> r.buffer]))]
    /\ UNCHANGED <<config, mimeIn, mimeOut, attIn, attOut, expIn, expOut>>

SendCalls(run) == Len(SelectSeq(run.log, LAMBDA e : e.kind = "send"))

(* SendEmail is called and builds the message: the attachment buffers of   *)
(* the run are read to their end.                                          *)
TaskBuild(i) ==
    /\ runs[i].pc = "send"
    /\ LET run == runs[i]
           post == config.post[run.post]
           k == SendCalls(run) + 1
           call == BeginSend(config.email.host, config.email.port, config.email.username,
                             config.email.password, post.from, post.to[run.idx], post.subject,
                             post.body, run.attachments,
                             [boundary |-> Fresh(i, k), conn |-> Fresh(i, k), failAt |-> 0])
       IN  runs' = [runs EXCEPT ![i] = [run EXCEPT !.pc = "smtp", !.call = call,
                                                   !.attachments = call.attachments]]
    /\ UNCHANGED <<config, mimeIn, mimeOut, attIn, attOut, expIn, expOut>>

(* One stage of the exchange answers.  When SendEmail returns, task goes   *)
(* on with the next recipient or post, or returns on the error.            *)
TaskStage(i) ==
    /\ runs[i].pc = "smtp"
    /\ \E ok \in BOOLEAN :
          LET run == runs[i]
              r == StageStep(run.call, ok)
              e == [Entry("send", run.post, run.idx, config.post[run.post].to[run.idx], ~r.err)
                      EXCEPT !.built = r.built, !.stages = r.stages, !.conn = r.conn,
                             !.rcpts = r.rcpts, !.data = r.data]
              logged == [run EXCEPT !.log = Append(@, e), !.call = <<>>]
          IN  runs' = [runs EXCEPT ![i] =
                         IF ~Returned(r) THEN [run EXCEPT !.call = r]
                         ELSE IF r.err THEN OnSendError(logged)
                         ELSE Continue(logged, AfterSend(config, run.post, run.idx),
                                       run.attachments)]
    /\ UNCHANGED <<config, mimeIn, mimeOut, attIn, attOut, expIn, expOut>>

(* task returns and the deferred db.Close() runs *)
TaskReturn(i) ==
    /\ runs[i].pc = "return"
    /\ runs' = [runs EXCEPT ![i] = Return(@)]
    /\ UNCHANGED <<config, mimeIn, mimeOut, attIn, attOut, expIn, expOut>>

Init ==
    /\ config \in Configs
    /\ runs = [i \in 1..MaxRuns |-> IdleRun]
    /\ mimeIn = <<>> /\ mimeOut = <<>>
    /\ attIn = <<>> /\ attOut = <<>>
    /\ expIn = <<>> /\ expOut = <<>>

Next ==
    \E i \in 1..MaxRuns :
        \/ Trigger(i)
        \/ TaskOpen(i)
        \/ TaskPing(i)
        \/ TaskExport(i)
        \/ TaskBuild(i)
        \/ TaskStage(i)
        \/ TaskReturn(i)

Spec == Init /\ [][Next]_vars

-----------------------------------------------------------------------------
(* Reading the log of a run *)

RunIds == 1..MaxRuns

LogIdx(i) == 1..Len(runs[i].log)

IsSend(e) == e.kind = "send"

IsExport(e) == e.kind = "export"

(* The document the run exported for attachment a of post p. *)
ExportedDoc(i, p, a) ==
    LET k == CHOOSE k \in LogIdx(i) :
                 /\ IsExport(runs[i].log[k])
                 /\ runs[i].log[k].post = p
                 /\ runs[i].log[k].idx = a
    IN  runs[i].log[k].doc

(* What a run without failure does, in order: <<kind, post, idx, name>> *)
RECURSIVE ExpectedFrom(_, _)
ExpectedFrom(cfg, p) ==
    IF p > Len(cfg.post) THEN <<>>
    ELSE [a \in 1..Len(cfg.post[p].attachment) |->
              <<"export", p, a, cfg.post[p].attachment[a].table>>]
         \o [r \in 1..Len(cfg.post[p].to) |-> <<"send", p, r, cfg.post[p].to[r]>>]
         \o ExpectedFrom(cfg, p + 1)

Performed(i) == [k \in LogIdx(i) |->
              <<runs[i].log[k].kind, runs[i].log[k].post, runs[i].log[k].idx,
                runs[i].log[k].name>>]

-----------------------------------------------------------------------------
(* C1: every message delivered in a run, to the first recipient of a post  *)
(* and to every later one, carries one part per configured attachment, in  *)
(* configured order, under the configured file name, whose decoded payload *)
(* is the whole document the export of that attachment's table produced.   *)
C1_EveryRecipientGetsTheDocuments ==
    \A i \in RunIds : \A k \in LogIdx(i) :
        LET e == runs[i].log[k]
            ac == config.post[e.post].attachment
            parts == AttachmentParts(e.data)
        IN  (IsSend(e) /\ e.ok) =>
              /\ Len(parts) = Len(ac)
              /\ \A a \in 1..Len(ac) :
                    /\ parts[a].h.ContentDisposition = ac[a].excel
                    /\ StdDecode(parts[a].d) = ExportedDoc(i, e.post, a)

(* C3: at every moment at most one run of task is between its start and   *)
(* its end.                                                                *)
C3_NoOverlap ==
    Cardinality({i \in RunIds : runs[i].pc \notin {"idle", "done"}}) <= 1

(* C4: a failed export is the last thing its run does: the run has left    *)
(* its loops (it is returning or has returned) with the export error, the  *)
(* export was not tried again, no later attachment of the post was         *)
(* exported, no message was built or sent for the post, and no later post  *)
(* was touched.                                                            *)
C4_ExportFailureStopsRun ==
    \A i \in RunIds : \A k \in LogIdx(i) :
        LET e == runs[i].log[k]
        IN  (IsExport(e) /\ ~e.ok) =>
              /\ k = Len(runs[i].log)
              /\ runs[i].pc \in {"return", "done"}
              /\ runs[i].call = <<>>
              /\ runs[i].result = "exportErr"
              /\ e.doc = NilBuffer
              /\ \A j \in LogIdx(i) \ {k} :
                    LET f == runs[i].log[j]
                    IN  /\ f.post <= e.post
                        /\ f.post = e.post => (IsExport(f) /\ f.idx < e.idx)

C4_Witness ==
    \E i \in RunIds :
        /\ config = ConfigTwoPosts
        /\ runs[i].pc = "done"
        /\ Len(runs[i].log) = 2
        /\ runs[i].log[1].ok
        /\ IsExport(runs[i].log[2]) /\ ~runs[i].log[2].ok /\ runs[i].log[2].idx = 2

(* C5: a failed send is the last thing its run does: the stages executed   *)
(* are the SMTP stages up to the failing one and no later one, the send is *)
(* not tried again, the run has left its loops (it is returning or has     *)
(* returned) with the send error and no later recipient or post attempted, *)
(* and everything before it in the run succeeded and stays as it was.      *)
C5_FailedSendIsLast ==
    \A i \in RunIds : \A k \in LogIdx(i) :
        LET e == runs[i].log[k]
            n == Len(e.stages)
        IN  (IsSend(e) /\ ~e.ok) =>
              /\ k = Len(runs[i].log)
              /\ runs[i].pc \in {"return", "done"}
              /\ runs[i].call = <<>>
              /\ runs[i].result = "sendErr"
              /\ n >= 1 /\ e.stages = SubSeq(Stages, 1, n)
              /\ n < 5 => e.rcpts = <<>>
              /\ n < 7 => e.data = <<>>
              /\ \A j \in 1..(k - 1) :
                    /\ runs[i].log[j].ok
                    /\ <<runs[i].log[j].kind, runs[i].log[j].post, runs[i].log[j].idx>>
                         # <<e.kind, e.post, e.idx>>

C5_LogOnlyGrows ==
    \A i \in RunIds :
        /\ Len(runs'[i].log) >= Len(runs[i].log)
        /\ SubSeq(runs'[i].log, 1, Len(runs[i].log)) = runs[i].log

C5_DeliveryFailureStopsRun == [](C5_FailedSendIsLast) /\ [][C5_LogOnlyGrows]_vars

C5_Witness ==
    \E i \in RunIds :
        /\ config = ConfigReadme
        /\ runs[i].pc = "done"
        /\ Len(runs[i].log) = 4
        /\ IsSend(runs[i].log[3]) /\ runs[i].log[3].ok
        /\ IsSend(runs[i].log[4]) /\ ~runs[i].log[4].ok
        /\ Last(runs[i].log[4].stages) = "rcpt"

(* C6: for each post the message is built once in a run, whatever the      *)
(* number of recipients, and the same bytes go to every recipient of the   *)
(* post: no two SendEmail calls of a run for one post both build a         *)
(* message, and any two deliveries of the post carry equal data.           *)
C6_BuiltOncePerPost ==
    \A i \in RunIds : \A j, k \in LogIdx(i) :
        LET e == runs[i].log[j]
            f == runs[i].log[k]
        IN  (IsSend(e) /\ IsSend(f) /\ e.post = f.post /\ j # k) =>
              /\ e.built = <<>> \/ f.built = <<>>
              /\ (e.ok /\ f.ok) => e.data = f.data

(* C7: a run that ends without failure has done, in this order and nothing *)
(* else: for each post, one export per configured attachment and then one  *)
(* delivery per configured recipient; every delivery names exactly that    *)
(* recipient in its envelope and uses a connection no other delivery uses. *)
C7_OneExportPerAttachmentOneSendPerRecipient ==
    \A i \in RunIds :
        runs[i].result = "ok" =>
          /\ Performed(i) = ExpectedFrom(config, 1)
          /\ \A k \in LogIdx(i) : runs[i].log[k].ok
          /\ \A k \in LogIdx(i) :
                LET e == runs[i].log[k]
                IN  IsSend(e) =>
                      /\ e.rcpts = <<e.name>>
                      /\ e.stages = Stages
                      /\ e.conn # 0
                      /\ \A j \in RunIds : \A m \in LogIdx(j) :
                            (IsSend(runs[j].log[m]) /\ <<j, m>> # <<i, k>>)
                               => runs[j].log[m].conn # e.conn

C7_Witness ==
    \E i \in RunIds :
        /\ config = ConfigTwoPosts
        /\ runs[i].result = "ok"
        /\ Len(runs[i].log) = 4

(* C8: a run that got a connection has closed it exactly once when it      *)
(* ends, however it ends; a run whose connection attempt or ping failed    *)
(* leaves nothing open and exported and sent nothing; and from the ping    *)
(* until the run returns, while it is exporting, sending or about to       *)
(* return, its connection is open and was never closed.                    *)
C8_ConnectionReleasedOnce ==
    \A i \in RunIds :
        LET r == runs[i]
        IN  /\ r.pc \in {"idle", "createDMDB"} => r.db = NoDB
            /\ r.pc \in {"ping", "export", "send", "smtp", "return"} =>
                  (r.db.opened /\ r.db.open /\ r.db.closes = 0)
            /\ r.pc = "done" =>
                  /\ ~r.db.open
                  /\ r.result # "dbErr" => (r.db.opened /\ r.db.closes = 1)
                  /\ r.result = "dbErr" =>
                        /\ r.log = <<>>
                        /\ r.db.closes = IF r.db.opened THEN 1 ELSE 0

C8_Witness ==
    \E i, j \in RunIds :
        /\ runs[i].result = "exportErr" /\ runs[i].db.closes = 1
        /\ runs[j].result = "dbErr" /\ runs[j].db.opened /\ ~runs[j].db.open

-----------------------------------------------------------------------------
(* One SendEmail call on its own: every body and attachment list within    *)
(* the bounds, every stage of the exchange failing or none.                *)

BodyBytes == {65, 61, 32, 10, 233}

Payload(n, seed) == [k \in 1..n |-> (seed + 37 * k) % 256]

FileNames == <<"01.xlsx", "02.xlsx", "03.xlsx", "04.xlsx">>

MimeAttachments ==
    {[k \in 1..Len(lens) |-> [fileName |-> FileNames[k], mimeType |-> XlsxMime,
                              file |-> Payload(lens[k], k)]] :
        lens \in SeqsUpTo(0..MaxPartLen, MaxAtts)}

JobIdle ==
    /\ config = ConfigReadme
    /\ runs = [i \in 1..MaxRuns |-> IdleRun]

InitMime ==
    /\ JobIdle
    /\ mimeIn \in {[body |-> b, attachments |-> a] :
                       b \in SeqsUpTo(BodyBytes, MaxBodyLen), a \in MimeAttachments}
    /\ mimeOut = <<>>
    /\ attIn = <<>> /\ attOut = <<>>
    /\ expIn = <<>> /\ expOut = <<>>

MimeSendEmail ==
    /\ mimeOut = <<>>
    /\ \E failAt \in 0..Len(Stages) :
          mimeOut' = SendEmail(Email.host, Email.port, Email.username, Email.password,
                               "from@x", "to@x", "SUBJECT", mimeIn.body, mimeIn.attachments,
                               [boundary |-> 1, conn |-> 1, failAt |-> failAt])
    /\ UNCHANGED <<config, runs, mimeIn, attIn, attOut, expIn, expOut>>

SpecMime == InitMime /\ [][MimeSendEmail]_vars

(* C2: the bytes SendEmail hands to the DATA stage are a complete          *)
(* multipart document, closing delimiter included; read back, they give a  *)
(* body part whose decoded text is bodyText and one part per attachment,   *)
(* in order, whose decoded payload is the attachment's bytes.              *)
C2_DataIsCompleteMultipart ==
    (mimeOut # <<>> /\ "write" \in Range(mimeOut.stages)) =>
        LET msg == mimeOut.data
            atts == AttachmentParts(msg)
        IN  /\ IsCompleteMultipart(msg)
            /\ Len(Parts(msg)) = 1 + Len(mimeIn.attachments)
            /\ QPDecode(Parts(msg)[1].d) = mimeIn.body
            /\ \A a \in 1..Len(mimeIn.attachments) :
                  /\ atts[a].h.ContentDisposition = mimeIn.attachments[a].fileName
                  /\ StdDecode(atts[a].d) = mimeIn.attachments[a].file

-----------------------------------------------------------------------------
(* One writeAttachment call on its own, for payloads of every length       *)
(* within the bound.                                                       *)

InitAttachment ==
    /\ JobIdle
    /\ mimeIn = <<>> /\ mimeOut = <<>>
    /\ attIn \in {[fileName |-> "01.xlsx", mimeType |-> XlsxMime, file |-> Payload(n, seed)] :
                      n \in 0..MaxPayloadLen, seed \in 0..2}
    /\ attOut = <<>>
    /\ expIn = <<>> /\ expOut = <<>>

AttachmentWrite ==
    /\ attOut = <<>>
    /\ attOut' = writeAttachment(NewWriter(<<>>, 1), attIn)
    /\ UNCHANGED <<config, runs, mimeIn, mimeOut, attIn, expIn, expOut>>

SpecAttachment == InitAttachment /\ [][AttachmentWrite]_vars

(* C10: the body of the part writeAttachment writes is the base64 encoding *)
(* of the payload in lines of at most 76 characters.                       *)
C10_Base64LinesAtMost76 ==
    attOut # <<>> =>
        LET body == Last(attOut.w.buf).d
        IN  /\ StdDecode(body) = attIn.file
            /\ \A line \in Lines(body) : Len(line) <= 76

-----------------------------------------------------------------------------
(* One exportTableToExcel call on its own, for every result set within the *)
(* bounds and every way the driver can fail on it.                         *)

ColumnNames == <<<<65>>, <<66>>, <<67>>, <<68>>>>

CellValues == {Null, Val(<<120>>)}

Fails(n) ==
    {NoFail, [kind |-> "query", at |-> 0], [kind |-> "columns", at |-> 0]}
    \cup {[kind |-> "scan", at |-> k] : k \in 1..n}
    \cup {[kind |-> "iter", at |-> k] : k \in 0..n}

Scripts ==
    UNION {{[columns |-> SubSeq(ColumnNames, 1, k), rows |-> rows, fail |-> fail] :
               fail \in Fails(Len(rows))} :
           <<k, rows>> \in UNION {{<<k, rows>> : rows \in SeqsUpTo(SeqsOfLen(CellValues, k), MaxRows)} :
                                   k \in 1..MaxCols}}

InitExport ==
    /\ JobIdle
    /\ mimeIn = <<>> /\ mimeOut = <<>>
    /\ attIn = <<>> /\ attOut = <<>>
    /\ expIn \in Scripts
    /\ expOut = <<>>

ExportCall ==
    /\ expOut = <<>>
    /\ expOut' = exportTableToExcel([opened |-> TRUE, open |-> TRUE, closes |-> 0], expIn)
    /\ UNCHANGED <<config, runs, mimeIn, mimeOut, attIn, attOut, expIn>>

SpecExport == InitExport /\ [][ExportCall]_vars

====
